---- MODULE Spec2Model ----
(***************************************************************************)
(* LearnHub backend: three document collections (material, tutor, booking) *)
(* behind an HTTP API with pydantic validation, in-memory post-filtering   *)
(* and a start-up seeding hook.                                            *)
(*                                                                         *)
(* Conventions of the model.                                               *)
(*  - A Python str on which the code only tests equality or truthiness is  *)
(*    a TLA+ string; a str that the code lowercases or searches is a tuple *)
(*    of one-character strings.                                            *)
(*  - Optional[T]: None is <<>>, a value v is <<v>>.                       *)
(*  - A request body field is <<>> when the key is omitted and <<x>> when  *)
(*    it is supplied with JSON value x (x itself is <<>> for JSON null     *)
(*    when the field is Optional).                                         *)
(*  - float fields are counted in tenths (4.8 is 48, 50 is 500); int       *)
(*    fields are plain integers.                                           *)
(*  - An ObjectId is its 12 bytes; str() and ObjectId() are the hex        *)
(*    encoding and decoding.                                               *)
(***************************************************************************)
EXTENDS Integers, Sequences, FiniteSets, TLC

VARIABLES db_is_none, db, next_oid, started, posts, inflight, resp, seeded, posted

vars == <<db_is_none, db, next_oid, started, posts, inflight, resp, seeded, posted>>

\* ------------------------------------------------------------------ bounds
MaxPosts == 2

MaxInflight == 2

\* ------------------------------------------------------------ Python values
None == <<>>

Some(v) == <<v>>

UpperChars == <<"A","B","C","D","E","F","G","H","I","J","K","L","M","N","O","P","Q","R","S","T","U","V","W","X","Y","Z">>

LowerChars == <<"a","b","c","d","e","f","g","h","i","j","k","l","m","n","o","p","q","r","s","t","u","v","w","x","y","z">>

lower_char(c) == IF \E i \in 1..26 : UpperChars[i] = c THEN LowerChars[CHOOSE i \in 1..26 : UpperChars[i] = c] ELSE c

upper_char(c) == IF \E i \in 1..26 : LowerChars[i] = c THEN UpperChars[CHOOSE i \in 1..26 : LowerChars[i] = c] ELSE c

\* str.lower()
lower(s) == IF Len(s) = 0 THEN <<>> ELSE [i \in 1..Len(s) |-> lower_char(s[i])]

\* str.upper(), used only to build request inputs
upper(s) == IF Len(s) = 0 THEN <<>> ELSE [i \in 1..Len(s) |-> upper_char(s[i])]

\* Python's  sub in s  on str
contains(sub, s) == \E i \in 0..(Len(s) - Len(sub)) : \A j \in 1..Len(sub) : s[i + j] = sub[j]

\* ------------------------------------------------------------------ ObjectId
HexDigits == <<"0","1","2","3","4","5","6","7","8","9","a","b","c","d","e","f">>

OidLen == 24

is_hex_char(c) == \E v \in 1..16 : HexDigits[v] = lower_char(c)

hex_val(c) == (CHOOSE v \in 1..16 : HexDigits[v] = lower_char(c)) - 1

\* ObjectId(s) raises unless s is 24 hexadecimal characters
oid_parses(s) == Len(s) = OidLen /\ \A i \in 1..Len(s) : is_hex_char(s[i])

\* ObjectId(s): the 12 bytes that s encodes
ObjectId(s) == [k \in 1..(OidLen \div 2) |-> 16 * hex_val(s[2 * k - 1]) + hex_val(s[2 * k])]

\* str(oid): 24 lowercase hexadecimal characters
oid_str(oid) == [i \in 1..OidLen |-> HexDigits[(IF i % 2 = 1 THEN oid[(i + 1) \div 2] \div 16 ELSE oid[i \div 2] % 16) + 1]]

\* the n-th identifier the store generates
new_oid(n) == <<101, 240, 171, 205, 239, 18, 52, 86, 120, 0, 0, n>>

\* -------------------------------------------------------------- schemas.py
Courses == {"Information Technology", "Electrical Engineering", "Civil Engineering", "Business Administration", "Education", "Nursing", "Accountancy", "Hospitality Management"}

MaterialTypes == {"Reviewer", "Class Notes", "Handout", "Problem Set", "Cheat Sheet"}

Modes == {"One-on-One", "Group"}

Statuses == {"pending", "confirmed", "cancelled"}

PLV == "Pamantasan ng Lungsod ng Valenzuela"

\* value of a body field, or the schema default when the key is omitted
field(p, name, default) == IF p[name] = <<>> THEN default ELSE p[name][1]

supplied(p, name) == p[name] # <<>>

\* Optional numeric field: None passes, a number must satisfy lo <= x <= hi
opt_in_range(x, lo, hi) == x = None \/ (x[1] >= lo /\ x[1] <= hi)

opt_ge(x, lo) == x = None \/ x[1] >= lo

\* Material_valid without the upper bound on rating
Material_valid_no_le(p) ==
    /\ supplied(p, "title") /\ supplied(p, "course") /\ supplied(p, "subject")
    /\ supplied(p, "type") /\ supplied(p, "author_name")
    /\ p.course[1] \in Courses
    /\ p.type[1] \in MaterialTypes
    /\ field(p, "price", 0) >= 0
    /\ opt_ge(field(p, "rating", Some(48)), 0)
    /\ opt_ge(field(p, "downloads", Some(0)), 0)

Material_valid(p) ==
    /\ supplied(p, "title") /\ supplied(p, "course") /\ supplied(p, "subject")
    /\ supplied(p, "type") /\ supplied(p, "author_name")
    /\ p.course[1] \in Courses
    /\ p.type[1] \in MaterialTypes
    /\ field(p, "price", 0) >= 0
    /\ opt_in_range(field(p, "rating", Some(48)), 0, 50)
    /\ opt_ge(field(p, "downloads", Some(0)), 0)

\* Material with the rating default of Tutor
Material_tutor_rating(p) ==
    [title |-> p.title[1],
     description |-> field(p, "description", None),
     course |-> p.course[1],
     subject |-> p.subject[1],
     type |-> p.type[1],
     price |-> field(p, "price", 0),
     author_name |-> p.author_name[1],
     university |-> field(p, "university", PLV),
     file_url |-> field(p, "file_url", None),
     rating |-> field(p, "rating", Some(49)),
     downloads |-> field(p, "downloads", Some(0))]

\* the validated model: defaults filled in, unknown keys (id) dropped
Material(p) ==
    [title |-> p.title[1],
     description |-> field(p, "description", None),
     course |-> p.course[1],
     subject |-> p.subject[1],
     type |-> p.type[1],
     price |-> field(p, "price", 0),
     author_name |-> p.author_name[1],
     university |-> field(p, "university", PLV),
     file_url |-> field(p, "file_url", None),
     rating |-> field(p, "rating", Some(48)),
     downloads |-> field(p, "downloads", Some(0))]

Tutor_valid(p) ==
    /\ supplied(p, "name") /\ supplied(p, "course") /\ supplied(p, "rate_per_hour")
    /\ p.course[1] \in Courses
    /\ p.rate_per_hour[1] >= 0
    /\ \A i \in 1..Len(field(p, "modes", <<"One-on-One">>)) : field(p, "modes", <<"One-on-One">>)[i] \in Modes
    /\ opt_in_range(field(p, "rating", Some(49)), 0, 50)

Tutor(p) ==
    [name |-> p.name[1],
     course |-> p.course[1],
     subjects |-> field(p, "subjects", <<>>),
     rate_per_hour |-> p.rate_per_hour[1],
     modes |-> field(p, "modes", <<"One-on-One">>),
     bio |-> field(p, "bio", None),
     availability |-> field(p, "availability", Some(<<>>)),
     rating |-> field(p, "rating", Some(49))]

Booking_valid(p) ==
    /\ supplied(p, "tutor_id") /\ supplied(p, "student_name") /\ supplied(p, "student_email")
    /\ supplied(p, "mode") /\ supplied(p, "session_datetime")
    /\ p.mode[1] \in Modes
    /\ field(p, "duration_hours", 10) > 0
    /\ opt_ge(field(p, "group_size", None), 2)
    /\ field(p, "status", "pending") \in Statuses

Booking(p) ==
    [tutor_id |-> p.tutor_id[1],
     student_name |-> p.student_name[1],
     student_email |-> p.student_email[1],
     mode |-> p.mode[1],
     session_datetime |-> p.session_datetime[1],
     duration_hours |-> field(p, "duration_hours", 10),
     group_size |-> field(p, "group_size", None),
     notes |-> field(p, "notes", None),
     status |-> field(p, "status", "pending")]

\* ------------------------------------------------------------- strings used
DataStructuresReviewer == <<"D","a","t","a"," ","S","t","r","u","c","t","u","r","e","s"," ","R","e","v","i","e","w","e","r">>

KeyConcepts == <<"K","e","y"," ","c","o","n","c","e","p","t","s"," ","+"," ","s","a","m","p","l","e"," ","p","r","o","b","l","e","m","s">>

CircuitAnalysisHandout == <<"C","i","r","c","u","i","t"," ","A","n","a","l","y","s","i","s"," ","H","a","n","d","o","u","t">>

OhmsLaw == <<"O","h","m","'","s"," ","l","a","w"," ","t","o"," ","T","h","e","v","e","n","i","n">>

Programming1 == <<"P","r","o","g","r","a","m","m","i","n","g"," ","1">>

DataStructures == <<"D","a","t","a"," ","S","t","r","u","c","t","u","r","e","s">>

Statics == <<"S","t","a","t","i","c","s">>

StrengthOfMaterials == <<"S","t","r","e","n","g","t","h"," ","o","f"," ","M","a","t","e","r","i","a","l","s">>

AlgebraNotes == <<"A","l","g","e","b","r","a"," ","N","o","t","e","s">>

AlgebraDrills == <<"A","L","G","E","B","R","A"," ","d","r","i","l","l","s">>

Algebra == <<"A","l","g","e","b","r","a">>

\* ------------------------------------------------------------------ seeding
demo_materials ==
    << [title |-> DataStructuresReviewer, description |-> Some(KeyConcepts),
        course |-> "Information Technology", subject |-> "Data Structures",
        type |-> "Reviewer", price |-> 500, author_name |-> "Alex Cruz",
        university |-> "Pamantasan ng Lungsod ng Valenzuela", file_url |-> None,
        rating |-> Some(49), downloads |-> Some(120)],
       [title |-> CircuitAnalysisHandout, description |-> Some(OhmsLaw),
        course |-> "Electrical Engineering", subject |-> "Circuit Analysis",
        type |-> "Handout", price |-> 0, author_name |-> "J. Dizon",
        university |-> "Pamantasan ng Lungsod ng Valenzuela", file_url |-> None,
        rating |-> Some(47), downloads |-> Some(88)] >>

demo_tutors ==
    << [name |-> "Maria Santos", course |-> "Information Technology",
        subjects |-> <<Programming1, DataStructures>>, rate_per_hour |-> 2000,
        modes |-> <<"One-on-One", "Group">>, bio |-> Some("3rd year IT student, dean's lister"),
        availability |-> Some(<<"Mon 7-9pm", "Wed 8-10pm">>), rating |-> Some(49)],
       [name |-> "Mark Reyes", course |-> "Civil Engineering",
        subjects |-> <<Statics, StrengthOfMaterials>>, rate_per_hour |-> 2500,
        modes |-> <<"One-on-One">>, bio |-> Some("Board topnotcher reviewee"),
        availability |-> Some(<<"Sat 2-5pm">>), rating |-> Some(48)] >>

\* ------------------------------------------------------------ store adapter
\* the document as stored: the fields of doc plus the store-assigned _id
with_id(doc, oid) == IF "_id" \in DOMAIN doc THEN doc ELSE [k \in DOMAIN doc \cup {"_id"} |-> IF k = "_id" THEN oid ELSE doc[k]]

\* insert_one that replaces the collection's content
insert_one_replacing(store, coll, doc, n) == [store EXCEPT ![coll] = {with_id(doc, new_oid(n))}]

\* collection.insert_one(doc) with the n-th generated identifier
insert_one(store, coll, doc, n) == [store EXCEPT ![coll] = @ \cup {with_id(doc, new_oid(n))}]

\* collection.count_documents({})
count_documents(store, coll) == Cardinality(store[coll])

\* find_one that ignores its filter
find_one_unfiltered(store, coll, oid) == IF store[coll] # {} THEN Some(CHOOSE d \in store[coll] : TRUE) ELSE None

\* collection.find_one({"_id": oid}): None, or the document
find_one(store, coll, oid) == IF \E d \in store[coll] : d._id = oid THEN Some(CHOOSE d \in store[coll] : d._id = oid) ELSE None

\* get_documents(collection, flt): equality match on every key of flt
get_documents(store, coll, flt) == {d \in store[coll] : \A k \in DOMAIN flt : d[k] = flt[k]}

\* create_document(collection, data): insert, return the new id as a string
create_document(store, coll, data, n) == [store |-> insert_one(store, coll, data, n), id |-> oid_str(with_id(data, new_oid(n))._id)]

\* ---------------------------------------------------------------- handlers
serialize_doc(doc) ==
    IF "_id" \in DOMAIN doc
    THEN [k \in (DOMAIN doc \ {"_id"}) \cup {"id"} |-> IF k = "id" THEN oid_str(doc._id) ELSE doc[k]]
    ELSE doc

\* truthiness of an Optional[str] query parameter
truthy(x) == x # None /\ x[1] # ""

truthy_chars(x) == x # None /\ Len(x[1]) > 0

\* materials_flt that files the course under the subject key
materials_flt_wrong_key(course, subject) ==
    [k \in (IF truthy(course) THEN {"subject"} ELSE {}) \cup (IF truthy(subject) THEN {"subject"} ELSE {})
        |-> IF truthy(course) THEN course[1] ELSE subject[1]]

materials_flt(course, subject) ==
    [k \in (IF truthy(course) THEN {"course"} ELSE {}) \cup (IF truthy(subject) THEN {"subject"} ELSE {})
        |-> IF k = "course" THEN course[1] ELSE subject[1]]

description_or_empty(i) == IF i.description = None THEN <<>> ELSE i.description[1]

\* list_materials that searches the title only
list_materials_title_only(store, course, subject, q) ==
    LET docs == get_documents(store, "material", materials_flt(course, subject))
        items == {serialize_doc(d) : d \in docs}
    IN  IF truthy_chars(q)
        THEN {i \in items : contains(lower(q[1]), lower(i.title))}
        ELSE items

list_materials(store, course, subject, q) ==
    LET docs == get_documents(store, "material", materials_flt(course, subject))
        items == {serialize_doc(d) : d \in docs}
    IN  IF truthy_chars(q)
        THEN {i \in items : contains(lower(q[1]), lower(i.title)) \/ contains(lower(q[1]), lower(description_or_empty(i)))}
        ELSE items

tutors_flt(course) == [k \in (IF truthy(course) THEN {"course"} ELSE {}) |-> course[1]]

\* list_tutors that does not lowercase the tutor's subjects
list_tutors_case_sensitive(store, course, subject) ==
    LET docs == get_documents(store, "tutor", tutors_flt(course))
        items == {serialize_doc(d) : d \in docs}
    IN  IF truthy_chars(subject)
        THEN {i \in items : \E n \in 1..Len(i.subjects) : contains(lower(subject[1]), i.subjects[n])}
        ELSE items

list_tutors(store, course, subject) ==
    LET docs == get_documents(store, "tutor", tutors_flt(course))
        items == {serialize_doc(d) : d \in docs}
    IN  IF truthy_chars(subject)
        THEN {i \in items : \E n \in 1..Len(i.subjects) : contains(lower(subject[1]), lower(i.subjects[n]))}
        ELSE items

\* create_booking_status without the "Tutor not found" branch
create_booking_status_no_404(store, none, p) ==
    IF ~Booking_valid(p) THEN 422
    ELSE IF ~oid_parses(p.tutor_id[1]) THEN 400
    ELSE 200

\* status code of POST /api/bookings for body p against the store
create_booking_status(store, none, p) ==
    IF ~Booking_valid(p) THEN 422
    ELSE IF ~oid_parses(p.tutor_id[1]) THEN 400
    ELSE IF none \/ find_one(store, "tutor", ObjectId(p.tutor_id[1])) = None THEN 404
    ELSE 200

\* the status value create_booking puts in its response
create_booking_response_status(data) == "pending"

Response(op, req, status, items, id, st) == [op |-> op, req |-> req, status |-> status, items |-> items, id |-> id, booking_status |-> st]

\* ------------------------------------------------------------------ inputs
\* a client-chosen identifier: well-formed, never generated by the store
ClientId == oid_str(<<170, 187, 204, 221, 238, 255, 0, 17, 34, 51, 68, 85>>)

MatBase ==
    [title |-> Some(AlgebraNotes), description |-> <<>>, course |-> Some("Nursing"),
     subject |-> Some("Algebra"), type |-> Some("Class Notes"), price |-> Some(250),
     author_name |-> Some("Sam"), university |-> Some("UP Diliman"), file_url |-> <<>>,
     rating |-> Some(Some(45)), downloads |-> Some(Some(7)), id |-> <<>>]

ValidMaterialBodies ==
    { MatBase,
      [MatBase EXCEPT !.price = <<>>, !.rating = <<>>, !.downloads = <<>>, !.university = <<>>, !.id = Some(ClientId),
                      !.title = Some(DataStructures), !.description = Some(Some(AlgebraDrills)), !.course = Some("Information Technology")],
      [MatBase EXCEPT !.price = <<>>, !.downloads = <<>>, !.rating = Some(None), !.description = Some(None)],
      [MatBase EXCEPT !.rating = <<>>, !.university = <<>>, !.downloads = Some(None), !.subject = Some("")] }

InvalidMaterialBodies ==
    { [MatBase EXCEPT !.course = Some("Law")],
      [MatBase EXCEPT !.type = Some("Video")],
      [MatBase EXCEPT !.price = Some(-10)],
      [MatBase EXCEPT !.rating = Some(Some(51))],
      [MatBase EXCEPT !.downloads = Some(Some(-1))] }

MaterialBodies == ValidMaterialBodies \cup InvalidMaterialBodies

TutBase ==
    [name |-> Some("Ana Lim"), course |-> Some("Information Technology"), subjects |-> Some(<<Algebra>>),
     rate_per_hour |-> Some(1500), modes |-> <<>>, bio |-> <<>>, availability |-> <<>>,
     rating |-> <<>>, id |-> <<>>]

ValidTutorBodies ==
    { TutBase,
      [TutBase EXCEPT !.subjects = <<>>, !.course = Some("Nursing"), !.rating = Some(None), !.modes = Some(<<"Group">>)] }

InvalidTutorBodies ==
    { [TutBase EXCEPT !.course = Some("Law")],
      [TutBase EXCEPT !.rate_per_hour = Some(-1)],
      [TutBase EXCEPT !.modes = Some(<<"Online">>)],
      [TutBase EXCEPT !.rating = Some(Some(60))] }

TutorBodies == ValidTutorBodies \cup InvalidTutorBodies

BookBase(tid) ==
    [tutor_id |-> Some(tid), student_name |-> Some("X"), student_email |-> Some("x@y"),
     mode |-> Some("One-on-One"), session_datetime |-> Some("Mon 7pm"), duration_hours |-> Some(15),
     group_size |-> <<>>, notes |-> <<>>, status |-> <<>>]

\* the identifier, as served, of the most recently created tutor (a
\* well-formed identifier of no document when there is no tutor)
NewestTutorId(store) ==
    IF store.tutor = {} THEN ClientId
    ELSE oid_str((CHOOSE t \in store.tutor : \A u \in store.tutor : u._id[OidLen \div 2] <= t._id[OidLen \div 2])._id)

\* identifiers a client may send: that of a stored tutor as served, the same
\* in upper case, a malformed one and a well-formed one of no document
TutorIdInputs(store) == LET tid == NewestTutorId(store) IN {tid, upper(tid), <<"a","b","c">>, ClientId}

\* bodies that differ in tutor_id only
PlainBookingBodies(store) == {BookBase(tid) : tid \in TutorIdInputs(store)}

BookingBodies(store) ==
    LET base == BookBase(NewestTutorId(store))
    IN  PlainBookingBodies(store) \cup
        { [base EXCEPT !.status = Some("confirmed"), !.duration_hours = <<>>],
          [base EXCEPT !.status = Some("cancelled"), !.mode = Some("Group"), !.group_size = Some(Some(3))],
          [base EXCEPT !.mode = Some("Online")],
          [base EXCEPT !.duration_hours = Some(0)],
          [base EXCEPT !.group_size = Some(Some(1))],
          [base EXCEPT !.status = Some("done")] }

CourseParams == {None, Some(""), Some("Information Technology"), Some("Nursing")}

SubjectParams == {None, Some(""), Some("Algebra")}

QParams == {None, Some(<<>>), Some(<<"a","L","G","E","B","R","A">>)}

TutorSubjectParams == {None, Some(<<>>), Some(<<"D","A","T","A">>)}

\* ---------------------------------------------------------------- the state
NoCollections == [material |-> {}, tutor |-> {}, booking |-> {}]

\* a store may already hold documents created through the API earlier
InitialStores ==
    { NoCollections,
      insert_one(NoCollections, "material", Material(MatBase), 1),
      insert_one(NoCollections, "tutor", Tutor(TutBase), 1) }

Idle == [r \in 1..MaxInflight |-> None]

NoResponse == Response("none", None, 0, {}, None, None)

Init ==
    /\ db_is_none \in BOOLEAN
    /\ db \in (IF db_is_none THEN {NoCollections} ELSE InitialStores)
    /\ next_oid = 2
    /\ started = FALSE
    /\ posts = 0
    /\ inflight = Idle
    /\ resp = NoResponse
    /\ seeded = [material |-> 0, tutor |-> 0]
    /\ posted = {}

\* no response is in flight: the previous one has been sent to the client
Ready == resp = NoResponse

\* the response in flight leaves the service
SendResponse ==
    /\ ~Ready
    /\ resp' = NoResponse
    /\ UNCHANGED <<db_is_none, db, next_oid, started, posts, inflight, seeded, posted>>

\* ---------------------------------------------------------------- start-up
\* db after the material half of seed_demo
seed_materials(store, n) ==
    IF count_documents(store, "material") = 0
    THEN insert_one(insert_one(store, "material", demo_materials[1], n), "material", demo_materials[2], n + 1)
    ELSE store

\* seed_tutors that tests the material collection
seed_tutors_wrong_collection(store, n) ==
    IF count_documents(store, "material") = 0
    THEN insert_one(insert_one(store, "tutor", demo_tutors[1], n), "tutor", demo_tutors[2], n + 1)
    ELSE store

\* db after the tutor half of seed_demo, n being the next free identifier
seed_tutors(store, n) ==
    IF count_documents(store, "tutor") = 0
    THEN insert_one(insert_one(store, "tutor", demo_tutors[1], n), "tutor", demo_tutors[2], n + 1)
    ELSE store

seed_demo ==
    /\ Ready
    /\ started' = TRUE
    /\ resp' = Response("startup", None, 0, {}, None, None)
    /\ IF db_is_none
       THEN UNCHANGED <<db, next_oid, seeded>>
       ELSE LET m == seed_materials(db, next_oid)
                n == next_oid + Cardinality(m.material) - Cardinality(db.material)
                t == seed_tutors(m, n)
            IN  /\ db' = t
                /\ next_oid' = n + Cardinality(t.tutor) - Cardinality(m.tutor)
                /\ seeded' = [material |-> seeded.material + (IF m = db THEN 0 ELSE 1),
                              tutor |-> seeded.tutor + (IF t = m THEN 0 ELSE 1)]
    /\ UNCHANGED <<db_is_none, posts, inflight, posted>>

\* ------------------------------------------------------------------ requests
ListMaterials ==
    \E course \in CourseParams, subject \in SubjectParams, q \in QParams :
        /\ started /\ Ready
        /\ resp' = IF db_is_none
                   THEN Response("list_materials", <<course, subject, q>>, 500, {}, None, None)
                   ELSE Response("list_materials", <<course, subject, q>>, 200, list_materials(db, course, subject, q), None, None)
        /\ UNCHANGED <<db_is_none, db, next_oid, started, posts, inflight, seeded, posted>>

ListTutors ==
    \E course \in CourseParams, subject \in TutorSubjectParams :
        /\ started /\ Ready
        /\ resp' = IF db_is_none
                   THEN Response("list_tutors", <<course, subject>>, 500, {}, None, None)
                   ELSE Response("list_tutors", <<course, subject>>, 200, list_tutors(db, course, subject), None, None)
        /\ UNCHANGED <<db_is_none, db, next_oid, started, posts, inflight, seeded, posted>>

create_material(p) ==
    /\ started /\ Ready
    /\ IF ~Material_valid(p)
       THEN /\ resp' = Response("create_material", p, 422, {}, None, None)
            /\ UNCHANGED <<db, next_oid, posts, posted>>
       ELSE IF db_is_none
       THEN /\ resp' = Response("create_material", p, 500, {}, None, None)
            /\ UNCHANGED <<db, next_oid, posts, posted>>
       ELSE LET r == create_document(db, "material", Material(p), next_oid)
            IN  /\ posts < MaxPosts
                /\ db' = r.store
                /\ next_oid' = next_oid + 1
                /\ posts' = posts + 1
                /\ posted' = posted \cup {[id |-> r.id, body |-> p]}
                /\ resp' = Response("create_material", p, 200, {}, Some(r.id), None)
    /\ UNCHANGED <<db_is_none, started, inflight, seeded>>

CreateMaterial == \E p \in MaterialBodies : create_material(p)

create_tutor(p) ==
    /\ started /\ Ready
    /\ IF ~Tutor_valid(p)
       THEN /\ resp' = Response("create_tutor", p, 422, {}, None, None)
            /\ UNCHANGED <<db, next_oid, posts>>
       ELSE IF db_is_none
       THEN /\ resp' = Response("create_tutor", p, 500, {}, None, None)
            /\ UNCHANGED <<db, next_oid, posts>>
       ELSE LET r == create_document(db, "tutor", Tutor(p), next_oid)
            IN  /\ posts < MaxPosts
                /\ db' = r.store
                /\ next_oid' = next_oid + 1
                /\ posts' = posts + 1
                /\ resp' = Response("create_tutor", p, 200, {}, Some(r.id), None)
    /\ UNCHANGED <<db_is_none, started, inflight, seeded, posted>>

CreateTutor == \E p \in TutorBodies : create_tutor(p)

create_booking(p) ==
    /\ started /\ Ready
    /\ LET code == create_booking_status(db, db_is_none, p)
       IN  IF code # 200
           THEN /\ resp' = Response("create_booking", p, code, {}, None, None)
                /\ UNCHANGED <<db, next_oid, posts>>
           ELSE LET r == create_document(db, "booking", Booking(p), next_oid)
                IN  /\ posts < MaxPosts
                    /\ db' = r.store
                    /\ next_oid' = next_oid + 1
                    /\ posts' = posts + 1
                    /\ resp' = Response("create_booking", p, 200, {}, Some(r.id), Some(create_booking_response_status(Booking(p))))
    /\ UNCHANGED <<db_is_none, started, inflight, seeded, posted>>

CreateBooking == \E p \in BookingBodies(db) : create_booking(p)

Next == SendResponse \/ seed_demo \/ ListMaterials \/ CreateMaterial \/ ListTutors \/ CreateTutor \/ CreateBooking

Spec == Init /\ [][Next]_vars

\* ------------------------------------------- create_booking, statement by statement
\* Lines 165-171 of create_booking for request slot r: validation, ObjectId(),
\* find_one.  A request that passes waits at line 172.  A new request takes
\* the lowest free slot.
booking_lookup(r, p) ==
    /\ started /\ Ready
    /\ inflight[r] = None /\ \A x \in 1..(r - 1) : inflight[x] # None
    /\ LET code == create_booking_status(db, db_is_none, p)
       IN  IF code # 200
           THEN /\ resp' = Response("create_booking", p, code, {}, None, None)
                /\ UNCHANGED inflight
           ELSE /\ posts + Cardinality({x \in 1..MaxInflight : inflight[x] # None}) < MaxPosts
                /\ inflight' = [inflight EXCEPT ![r] = Some(p)]
                /\ UNCHANGED resp
    /\ UNCHANGED <<db_is_none, db, next_oid, started, posts, seeded, posted>>

BookingLookup == \E p \in PlainBookingBodies(db) : \E r \in 1..MaxInflight : booking_lookup(r, p)

\* Lines 172-173 of create_booking for request slot r
booking_insert(r) ==
    /\ Ready
    /\ inflight[r] # None
    /\ LET p == inflight[r][1]
           c == create_document(db, "booking", Booking(p), next_oid)
       IN  /\ db' = c.store
           /\ next_oid' = next_oid + 1
           /\ posts' = posts + 1
           /\ resp' = Response("create_booking", p, 200, {}, Some(c.id), Some(create_booking_response_status(Booking(p))))
    /\ inflight' = [inflight EXCEPT ![r] = None]
    /\ UNCHANGED <<db_is_none, started, seeded, posted>>

BookingInsert == \E r \in 1..MaxInflight : booking_insert(r)

NextConc == SendResponse \/ seed_demo \/ CreateTutor \/ BookingLookup \/ BookingInsert

SpecConc == Init /\ [][NextConc]_vars

\* =================================================================== claims
GetOps == {"list_materials", "list_tutors"}

PostOps == {"create_material", "create_tutor", "create_booking"}

CollectionNames == {"material", "tutor", "booking"}

\* the documents a step adds to a collection
Added(coll) == db'[coll] \ db[coll]

\* C1: POST /api/bookings with a schema-valid body answers 400 when tutor_id
\* does not parse as a 24-hex identifier, otherwise 404 when no tutor has
\* that identifier, otherwise inserts exactly one booking and answers 200
\* with the new id and status "pending"; the 400 and 404 cases leave the
\* booking collection unchanged.
C1_BookingOrder ==
    [][(resp'.op = "create_booking" /\ Booking_valid(resp'.req)) =>
        IF ~oid_parses(resp'.req.tutor_id[1])
        THEN resp'.status = 400 /\ db' = db
        ELSE IF ~\E t \in db.tutor : t._id = ObjectId(resp'.req.tutor_id[1])
        THEN resp'.status = 404 /\ db' = db
        ELSE /\ resp'.status = 200
             /\ db'.material = db.material /\ db'.tutor = db.tutor
             /\ db.booking \subseteq db'.booking
             /\ Cardinality(Added("booking")) = 1
             /\ \A b \in Added("booking") : resp'.id = Some(oid_str(b._id))
             /\ resp'.booking_status = Some("pending")]_vars

C1_Witness ==
    /\ resp.op = "create_booking" /\ resp.status = 200
    /\ \E b \in db.booking : resp.id = Some(oid_str(b._id)) /\ b.tutor_id = resp.req.tutor_id[1]

\* C2 as stated: under any interleaving, every booking's tutor_id equals the
\* identifier of a document present in the tutor collection.
C2_Original == \A b \in db.booking : \E t \in db.tutor : oid_str(t._id) = b.tutor_id

\* C2 amended: under any interleaving, every booking's tutor_id parses as a
\* 24-hex identifier (hex digits in either case) and the identifier it parses
\* to is that of a document present in the tutor collection.
C2_Amended == \A b \in db.booking : oid_parses(b.tutor_id) /\ \E t \in db.tutor : t._id = ObjectId(b.tutor_id)

\* a booking with an upper-case tutor_id is stored while another request has
\* passed its tutor lookup and not yet inserted
C2_Witness ==
    /\ \E r \in 1..MaxInflight : inflight[r] # None
    /\ \E b \in db.booking : \A t \in db.tutor : oid_str(t._id) # b.tutor_id

\* identifiers of the materials that a listing with parameters req should
\* return when an empty parameter counts as supplied
C3_ExpectedStrict(req) ==
    {oid_str(m._id) : m \in {m \in db.material :
        /\ req[1] = None \/ m.course = req[1][1]
        /\ req[2] = None \/ m.subject = req[2][1]
        /\ \/ req[3] = None
           \/ contains(lower(req[3][1]), lower(m.title))
           \/ contains(lower(req[3][1]), lower(IF m.description = None THEN <<>> ELSE m.description[1]))}}

\* the same when an empty course or subject counts as absent
C3_Expected(req) ==
    {oid_str(m._id) : m \in {m \in db.material :
        /\ req[1] = None \/ req[1][1] = "" \/ m.course = req[1][1]
        /\ req[2] = None \/ req[2][1] = "" \/ m.subject = req[2][1]
        /\ \/ req[3] = None
           \/ contains(lower(req[3][1]), lower(m.title))
           \/ contains(lower(req[3][1]), lower(IF m.description = None THEN <<>> ELSE m.description[1]))}}

\* C3 as stated: GET /api/materials returns exactly the stored materials m
\* with (course absent or m.course = course), (subject absent or m.subject =
\* subject) and (q absent or lower(q) in lower(title) or in lower(description
\* or "")), each parameter being absent or any string.
C3_Original ==
    (resp.op = "list_materials" /\ resp.status = 200) =>
        /\ {i.id : i \in resp.items} = C3_ExpectedStrict(resp.req)
        /\ Cardinality(resp.items) = Cardinality(C3_ExpectedStrict(resp.req))

\* C3 amended: as stated, except that a course or subject parameter supplied
\* as the empty string filters nothing, exactly as an absent one.
C3_Amended ==
    (resp.op = "list_materials" /\ resp.status = 200) =>
        /\ {i.id : i \in resp.items} = C3_Expected(resp.req)
        /\ Cardinality(resp.items) = Cardinality(C3_Expected(resp.req))

\* a search that matches one material by title and another by description
\* only, and leaves some material out
C3_Witness ==
    /\ resp.op = "list_materials" /\ resp.status = 200 /\ truthy_chars(resp.req[3])
    /\ \E i \in resp.items : contains(lower(resp.req[3][1]), lower(i.title))
    /\ \E i \in resp.items : ~contains(lower(resp.req[3][1]), lower(i.title))
    /\ Cardinality(resp.items) < Cardinality(db.material)

C4_ExpectedStrict(req) ==
    {oid_str(t._id) : t \in {t \in db.tutor :
        /\ req[1] = None \/ t.course = req[1][1]
        /\ req[2] = None \/ \E n \in 1..Len(t.subjects) : contains(lower(req[2][1]), lower(t.subjects[n]))}}

C4_Expected(req) ==
    {oid_str(t._id) : t \in {t \in db.tutor :
        /\ req[1] = None \/ req[1][1] = "" \/ t.course = req[1][1]
        /\ req[2] = None \/ req[2][1] = <<>> \/ \E n \in 1..Len(t.subjects) : contains(lower(req[2][1]), lower(t.subjects[n]))}}

\* C4 as stated: GET /api/tutors returns exactly the stored tutors t with
\* (course absent or t.course = course) and (subject absent or lower(subject)
\* in lower(s) for some s of t.subjects); a supplied subject never returns a
\* tutor whose subjects list is empty.
C4_Original ==
    (resp.op = "list_tutors" /\ resp.status = 200) =>
        /\ {i.id : i \in resp.items} = C4_ExpectedStrict(resp.req)
        /\ Cardinality(resp.items) = Cardinality(C4_ExpectedStrict(resp.req))
        /\ resp.req[2] # None => \A i \in resp.items : i.subjects # <<>>

\* C4 amended: as stated, except that a course or subject parameter supplied
\* as the empty string filters nothing, exactly as an absent one; a supplied
\* non-empty subject never returns a tutor whose subjects list is empty.
C4_Amended ==
    (resp.op = "list_tutors" /\ resp.status = 200) =>
        /\ {i.id : i \in resp.items} = C4_Expected(resp.req)
        /\ Cardinality(resp.items) = Cardinality(C4_Expected(resp.req))
        /\ truthy_chars(resp.req[2]) => \A i \in resp.items : i.subjects # <<>>

\* a subject search that returns a tutor and leaves out both a tutor with
\* other subjects and a tutor with no subjects
C4_Witness ==
    /\ resp.op = "list_tutors" /\ resp.status = 200 /\ truthy_chars(resp.req[2])
    /\ resp.items # {}
    /\ \E t \in db.tutor : t.subjects = <<>>
    /\ \E t \in db.tutor : t.subjects # <<>> /\ oid_str(t._id) \notin {i.id : i \in resp.items}

MaterialFields == {"title", "description", "course", "subject", "type", "price", "author_name", "university", "file_url", "rating", "downloads"}

\* C5: after a successful POST /api/materials and any further requests, GET
\* /api/materials?course=<posted course> returns an item whose user-supplied
\* fields equal the posted ones and whose id is the store-assigned identifier
\* the POST returned; an id supplied in the body never becomes the item's id.
C5_RoundTrip ==
    (resp.op = "list_materials" /\ resp.status = 200 /\ truthy(resp.req[1]) /\ resp.req[2] = None /\ resp.req[3] = None) =>
        \A h \in posted : h.body.course[1] = resp.req[1][1] =>
            /\ \E m \in db.material : oid_str(m._id) = h.id
            /\ \E i \in resp.items :
                /\ i.id = h.id
                /\ \A k \in MaterialFields : supplied(h.body, k) => i[k] = h.body[k][1]
            /\ supplied(h.body, "id") => \A i \in resp.items : i.id # h.body.id[1]

\* a listing by course, after a later successful POST, that holds a material
\* posted with a client-chosen id
C5_Witness ==
    /\ resp.op = "list_materials" /\ resp.status = 200 /\ truthy(resp.req[1]) /\ resp.req[2] = None /\ resp.req[3] = None
    /\ posts >= 2
    /\ \E h \in posted : supplied(h.body, "id") /\ h.body.course[1] = resp.req[1][1] /\ oid_str(new_oid(next_oid - 1)) # h.id

without_id(d) == [k \in DOMAIN d \ {"_id"} |-> d[k]]

\* C6: with a store whose operations succeed, start-up seeds each of the
\* material and tutor collections with its two demo documents if and only if
\* that collection is empty at that moment, independently of the other; so a
\* start against a non-empty collection leaves it unchanged and seeding
\* inserts each fixture at most once over any number of starts.
C6_Seeding ==
    /\ [](seeded.material <= 1 /\ seeded.tutor <= 1)
    /\ [][(resp'.op = "startup" /\ ~db_is_none) =>
            /\ IF db.material = {}
               THEN Cardinality(db'.material) = 2 /\ {without_id(d) : d \in db'.material} = {demo_materials[1], demo_materials[2]}
               ELSE db'.material = db.material
            /\ IF db.tutor = {}
               THEN Cardinality(db'.tutor) = 2 /\ {without_id(d) : d \in db'.tutor} = {demo_tutors[1], demo_tutors[2]}
               ELSE db'.tutor = db.tutor
            /\ db'.booking = db.booking]_vars

\* a start that seeded the materials but found tutors already present
C6_Witness ==
    /\ resp.op = "startup" /\ seeded.material = 1 /\ seeded.tutor = 0
    /\ Cardinality(db.material) = 2 /\ Cardinality(db.tutor) = 1

\* C7: no request mutates or deletes a document: every document of a state is
\* in every later state with the same field values; GET requests and failed
\* POST requests leave the three collections unchanged and a successful POST
\* adds exactly one document to exactly one collection.
C7_NoMutation ==
    [][/\ \A c \in CollectionNames : db[c] \subseteq db'[c]
       /\ (resp'.op \in GetOps \/ (resp'.op \in PostOps /\ resp'.status # 200)) => db' = db
       /\ (resp'.op \in PostOps /\ resp'.status = 200) =>
            /\ Cardinality(Added("material")) + Cardinality(Added("tutor")) + Cardinality(Added("booking")) = 1
            /\ Cardinality({c \in CollectionNames : db'[c] # db[c]}) = 1]_vars

\* a successful POST into a store that already holds documents of every kind
C7_Witness ==
    /\ resp.op \in PostOps /\ resp.status = 200
    /\ Cardinality(db.material) >= 2 /\ Cardinality(db.tutor) >= 2 /\ db.booking # {}

\* C8: a material POSTed without price, rating, downloads or university is
\* stored with price 0, rating 4.8, downloads 0 and university "Pamantasan ng
\* Lungsod ng Valenzuela"; each of the four independently takes its default
\* only when omitted and is stored as supplied otherwise.
C8_Defaults ==
    [][(resp'.op = "create_material" /\ resp'.status = 200) =>
        /\ Added("material") # {}
        /\ \A d \in Added("material") :
            /\ d.price = IF supplied(resp'.req, "price") THEN resp'.req.price[1] ELSE 0
            /\ d.rating = IF supplied(resp'.req, "rating") THEN resp'.req.rating[1] ELSE <<48>>
            /\ d.downloads = IF supplied(resp'.req, "downloads") THEN resp'.req.downloads[1] ELSE <<0>>
            /\ d.university = IF supplied(resp'.req, "university") THEN resp'.req.university[1] ELSE "Pamantasan ng Lungsod ng Valenzuela"]_vars

\* the store holds a material posted without any of the four fields and one
\* posted with only two of them
C8_Witness ==
    /\ resp.op = "create_material" /\ resp.status = 200
    /\ \E h \in posted : \A k \in {"price", "rating", "downloads", "university"} : ~supplied(h.body, k)
    /\ \E h \in posted : ~supplied(h.body, "price") /\ supplied(h.body, "rating") /\ supplied(h.body, "university")

\* enumerations and bounds of the stored documents; nullable says whether an
\* Optional number may be null
C9_NumberOk(x, lo, hi, nullable) == IF x = None THEN nullable ELSE x[1] >= lo /\ x[1] <= hi

C9_StoreOk(nullable) ==
    /\ \A m \in db.material :
        /\ m.course \in {"Information Technology", "Electrical Engineering", "Civil Engineering", "Business Administration", "Education", "Nursing", "Accountancy", "Hospitality Management"}
        /\ m.type \in {"Reviewer", "Class Notes", "Handout", "Problem Set", "Cheat Sheet"}
        /\ m.price >= 0
        /\ C9_NumberOk(m.rating, 0, 50, nullable)
        /\ IF m.downloads = None THEN nullable ELSE m.downloads[1] >= 0
    /\ \A t \in db.tutor :
        /\ t.course \in {"Information Technology", "Electrical Engineering", "Civil Engineering", "Business Administration", "Education", "Nursing", "Accountancy", "Hospitality Management"}
        /\ t.rate_per_hour >= 0
        /\ \A n \in 1..Len(t.modes) : t.modes[n] \in {"One-on-One", "Group"}
        /\ C9_NumberOk(t.rating, 0, 50, nullable)
    /\ \A b \in db.booking :
        /\ b.mode \in {"One-on-One", "Group"}
        /\ b.status \in {"pending", "confirmed", "cancelled"}
        /\ b.duration_hours > 0
        /\ b.group_size = None \/ b.group_size[1] >= 2

\* a body that supplies a value outside an enumeration or a bound
C9_BodyViolates(op, p) ==
    \/ op = "create_material" /\
        \/ supplied(p, "course") /\ p.course[1] \notin {"Information Technology", "Electrical Engineering", "Civil Engineering", "Business Administration", "Education", "Nursing", "Accountancy", "Hospitality Management"}
        \/ supplied(p, "type") /\ p.type[1] \notin {"Reviewer", "Class Notes", "Handout", "Problem Set", "Cheat Sheet"}
        \/ supplied(p, "price") /\ p.price[1] < 0
        \/ supplied(p, "rating") /\ p.rating[1] # None /\ (p.rating[1][1] < 0 \/ p.rating[1][1] > 50)
        \/ supplied(p, "downloads") /\ p.downloads[1] # None /\ p.downloads[1][1] < 0
    \/ op = "create_tutor" /\
        \/ supplied(p, "course") /\ p.course[1] \notin {"Information Technology", "Electrical Engineering", "Civil Engineering", "Business Administration", "Education", "Nursing", "Accountancy", "Hospitality Management"}
        \/ supplied(p, "rate_per_hour") /\ p.rate_per_hour[1] < 0
        \/ supplied(p, "modes") /\ \E n \in 1..Len(p.modes[1]) : p.modes[1][n] \notin {"One-on-One", "Group"}
        \/ supplied(p, "rating") /\ p.rating[1] # None /\ (p.rating[1][1] < 0 \/ p.rating[1][1] > 50)
    \/ op = "create_booking" /\
        \/ supplied(p, "mode") /\ p.mode[1] \notin {"One-on-One", "Group"}
        \/ supplied(p, "status") /\ p.status[1] \notin {"pending", "confirmed", "cancelled"}
        \/ supplied(p, "duration_hours") /\ p.duration_hours[1] <= 0
        \/ supplied(p, "group_size") /\ p.group_size[1] # None /\ p.group_size[1][1] < 2

\* C9 as stated: every stored material has rating in [0,5] and downloads >=
\* 0, every stored tutor has rating in [0,5], and the other enumerations and
\* bounds hold of every stored document.
C9_Original == C9_StoreOk(FALSE)

\* C9 amended: as stated, except that a material's rating and downloads and a
\* tutor's rating are either null or within their bounds; a POST whose body
\* violates an enumeration or bound is answered 422 and inserts nothing, and
\* the seed documents satisfy the constraints too.
C9_Amended ==
    /\ [](C9_StoreOk(TRUE))
    /\ [][(resp'.op \in PostOps /\ C9_BodyViolates(resp'.op, resp'.req)) => (resp'.status = 422 /\ db' = db)]_vars

\* a body outside the bounds has just been refused while the store holds the
\* seed documents, a posted material and a material whose rating is null
C9_Witness ==
    /\ resp.op \in PostOps /\ resp.status = 422 /\ C9_BodyViolates(resp.op, resp.req)
    /\ seeded.material = 1
    /\ \E m \in db.material : m.rating = None
    /\ db.tutor # {}

\* C10: the status in the response of a successful POST /api/bookings equals
\* the status field of the booking the request inserted, whichever valid
\* status the client supplied or none.
C10_StatusEcho ==
    (resp.op = "create_booking" /\ resp.status = 200) =>
        \E b \in db.booking : resp.id = Some(oid_str(b._id)) /\ resp.booking_status = Some(b.status)

====
